---- MODULE Spec2Model ----
(***************************************************************************)
(* ProfileCheckInterpolation::runCheck of ufo: the interpolation           *)
(* consistency check of a sounding's standard levels against their         *)
(* bracketing significant levels.                                          *)
(*                                                                         *)
(* Numbers.  The source computes in single precision (float).  A float is  *)
(* the pair <<m, e>> standing for m * 2^e with 2^23 <= |m| < 2^24, zero is *)
(* <<0, 0>>, and FAdd, FSub, FMul, FDiv round to nearest, ties to even,    *)
(* one operation at a time, as the source's expressions do.  The vectors   *)
(* of the data handler and the options hold whole numbers of magnitude     *)
(* below 2^24: these are the float values themselves, written as integers  *)
(* because single precision holds them, their comparisons and the pressure *)
(* differences of the gap test exactly.  tObsFinal, LogP_, Ratio and       *)
(* tInterp_ are floats.  Vectors are functions on 0..n-1, as in the source.*)
(***************************************************************************)
EXTENDS Integers, FiniteSets, Sequences, TLC

VARIABLES
  options,          \* options_ with StandardLevels_ and BigGaps_
  pressures,        \* air_pressure
  tObs,             \* obs air_temperature
  tBkg,             \* hofx air_temperature
  tFlags,           \* qc tFlags
  tObsCorrection,   \* tObsCorrection
  NumAnyErrors,     \* counter NumAnyErrors[0]
  NumInterpErrors,  \* counter NumInterpErrors[0]
  NumInterpErrObs,  \* counter NumInterpErrObs[0]
  NumStd_, NumSig_, StdLev_, SigAbove_, SigBelow_, IndStd_, LogP_,
  LevErrors_, tInterp_,
  published,        \* what fillValidator handed to the data handler
  BigGapUsed,       \* per standard level: the local BigGap of the last run
  pre,              \* the state the last runCheck started from
  last,             \* the last operation
  edits, runs       \* how many writes / checks have happened

vars == <<options, pressures, tObs, tBkg, tFlags, tObsCorrection,
          NumAnyErrors, NumInterpErrors, NumInterpErrObs,
          NumStd_, NumSig_, StdLev_, SigAbove_, SigBelow_, IndStd_, LogP_,
          LevErrors_, tInterp_, published, BigGapUsed, pre, last, edits, runs>>

store == <<pressures, tObs, tBkg, tFlags, tObsCorrection>>
counters == <<NumAnyErrors, NumInterpErrors, NumInterpErrObs>>
members == <<NumStd_, NumSig_, StdLev_, SigAbove_, SigBelow_, IndStd_, LogP_,
             LevErrors_, tInterp_>>

\* Bounds of the exploration.
MaxEdits == 1
MaxRuns == 2

-----------------------------------------------------------------------------
\* Vectors
EmptyVec == [i \in {} |-> 0]
Size(v) == Cardinality(DOMAIN v)
Vec(s) == [i \in 0..(Len(s) - 1) |-> s[i + 1]]
Assign(n, x) == [i \in 0..(n - 1) |-> x]
PopBack(v) == [i \in 0..(Size(v) - 2) |-> v[i]]

Abs(x) == IF x < 0 THEN -x ELSE x
Max(a, b) == IF a < b THEN b ELSE a

-----------------------------------------------------------------------------
\* Single precision.  8388608 = 2^23 and 16777216 = 2^24 bound the significand.
FZero == <<0, 0>>
FNeg(x) == <<-x[1], x[2]>>
FAbs(x) == <<Abs(x[1]), x[2]>>

\* K * 2^e with 0 < K < 2^23, brought to a 24-bit significand (exact).
RECURSIVE FShiftUp(_, _)
FShiftUp(K, e) ==
  IF K < 4096 THEN FShiftUp(K * 4096, e - 12)
  ELSE IF K < 1048576 THEN FShiftUp(K * 16, e - 4)
  ELSE IF K < 8388608 THEN FShiftUp(K * 2, e - 1)
  ELSE <<K, e>>

\* The number of low bits of K, 2^23 <= K < 2^31, beyond a 24-bit significand.
FDropBits(K) ==
  IF K < 16777216 THEN 0 ELSE IF K < 33554432 THEN 1
  ELSE IF K < 67108864 THEN 2 ELSE IF K < 134217728 THEN 3
  ELSE IF K < 268435456 THEN 4 ELSE IF K < 536870912 THEN 5
  ELSE IF K < 1073741824 THEN 6 ELSE 7

\* The float nearest to (K + s) * 2^e, ties to even, negated when neg; K >= 0
\* and 0 <= s < 1 with s > 0 exactly when sticky.
FRound(K, e, sticky, neg) ==
  LET n == FDropBits(K)
      mant == K \div 2^n
      rem == K % 2^n
      half == 2^n \div 2
      up == n > 0 /\ (rem > half \/ (rem = half /\ (sticky \/ mant % 2 = 1)))
      r == IF K < 8388608 THEN FShiftUp(K, e)
           ELSE IF up /\ mant = 16777215 THEN <<8388608, e + n + 1>>
           ELSE <<mant + (IF up THEN 1 ELSE 0), e + n>>
  IN  IF K = 0 THEN FZero ELSE IF neg THEN FNeg(r) ELSE r

\* The conversion of a whole number to float.
FromInt(i) == FRound(Abs(i), 0, FALSE, i < 0)

\* x + y: the smaller operand is aligned under the larger one with six guard
\* bits, what falls below them is remembered as sticky.
FAdd(x, y) ==
  LET swap == x[2] < y[2] \/ (x[2] = y[2] /\ Abs(x[1]) < Abs(y[1]))
      a == IF swap THEN y ELSE x
      b == IF swap THEN x ELSE y
      d == a[2] - b[2]
      s == IF d < 6 THEN d ELSE 6
      A == Abs(a[1]) * 2^s
      q == Abs(b[1]) \div 2^(d - s)
      t == Abs(b[1]) % 2^(d - s) # 0
      same == (a[1] < 0) = (b[1] < 0)
      K == IF same THEN A + q ELSE A - q - (IF t THEN 1 ELSE 0)
  IN  IF x[1] = 0 THEN y
      ELSE IF y[1] = 0 THEN x
      ELSE IF d > 26 THEN a
      ELSE FRound(K, a[2] - s, t, a[1] < 0)

FSub(x, y) == FAdd(x, FNeg(y))

\* x * y: the 48-bit product of the significands from 12-bit halves, its top
\* 30 bits rounded with the rest as sticky.
FMul(x, y) ==
  LET a == Abs(x[1])
      b == Abs(y[1])
      a1 == a \div 4096
      a0 == a % 4096
      b1 == b \div 4096
      b0 == b % 4096
      mid == a1 * b0 + a0 * b1
      low == (mid % 4096) * 4096 + a0 * b0
      lo == low % 16777216
      hi == a1 * b1 + mid \div 4096 + low \div 16777216
  IN  IF a = 0 \/ b = 0 THEN FZero
      ELSE FRound(hi * 64 + lo \div 262144, x[2] + y[2] + 18, lo % 262144 # 0,
                  (x[1] < 0) # (y[1] < 0))

\* Long division in base 2^w: w more quotient bits of r / b (r < b < 2^24,
\* w <= 7) after the quotient q, as <<quotient, remainder>>.
FDivBits(qr, b, w) ==
  <<qr[1] * 2^w + (qr[2] * 2^w) \div b, (qr[2] * 2^w) % b>>

\* x / y, y # 0: the quotient of the significands to 26 fractional bits.
FDiv(x, y) ==
  LET a == Abs(x[1])
      b == Abs(y[1])
      qr == FDivBits(FDivBits(FDivBits(FDivBits(<<a \div b, a % b>>, b, 7),
                                       b, 7), b, 7), b, 5)
  IN  IF a = 0 THEN FZero
      ELSE FRound(qr[1], x[2] - y[2] - 26, qr[2] # 0, (x[1] < 0) # (y[1] < 0))

\* x > y
FGreater(x, y) == FSub(x, y)[1] > 0

\* x is a whole number.
FIsWhole(x) == x[2] >= 0 \/ (x[2] > -24 /\ x[1] % 2^(-x[2]) = 0)

-----------------------------------------------------------------------------
\* Bits of ufo::FlagsProfile used by the check and by the classification.
\* Only their being distinct single bits matters here.
SurfaceLevelFlag == 64
StandardLevelFlag == 128
SigTempLevelFlag == 256
InterpolationFlag == 2048
HasBit(f, b) == (f \div b) % 2 = 1
SetBit(f, b) == IF HasBit(f, b) THEN f ELSE f + b
ClearBit(f, b) == IF HasBit(f, b) THEN f - b ELSE f

\* missingValueFloat: util::missingValue of float, the float nearest to
\* 0.99 times the lowest float (about -3.3688e38).
missingValueFloat == <<-16609443, 104>>

-----------------------------------------------------------------------------
\* Configuration: options_ together with the band table of ProfileStandardLevels.
RefOptions ==
  [ICheck_BigGapInit |-> 1000, ICheck_TInterpTol |-> 10,
   ICheck_TolRelaxPThresh |-> 50000, ICheck_TolRelax |-> 2,
   StandardLevels |-> Vec(<<1000, 850, 700, 500, 300, 150, 100>>),
   BigGaps |-> Vec(<<300, 250, 200, 200, 100, 50, 50>>)]
UnsortedOptions ==
  [ICheck_BigGapInit |-> 1000, ICheck_TInterpTol |-> 10,
   ICheck_TolRelaxPThresh |-> 50000, ICheck_TolRelax |-> 2,
   StandardLevels |-> Vec(<<500, 1000, 300>>),
   BigGaps |-> Vec(<<100, 300, 150>>)]
NoBandOptions ==
  [ICheck_BigGapInit |-> 20000, ICheck_TInterpTol |-> 10,
   ICheck_TolRelaxPThresh |-> 80000, ICheck_TolRelax |-> 3,
   StandardLevels |-> EmptyVec, BigGaps |-> EmptyVec]

\* Profiles the data handler can hold when the check is constructed.
ProfileA ==
  [pressures |-> Vec(<<100000, 85000, 70000, 50000, 30000>>),
   tObs |-> Vec(<<2880, 2799, 2702, 2534, 2278>>),
   tBkg |-> Vec(<<2870, 2790, 2700, 2540, 2280>>),
   tFlags |-> Vec(<<384, 384, 384, 384, 384>>),
   tObsCorrection |-> Vec(<<0, 0, 0, 0, 0>>)]
ProfileB ==
  [pressures |-> Vec(<<100000, 92500, 85000, 50000, 40000, 30000>>),
   tObs |-> Vec(<<2880, 2841, 2799, 2534, 2422, 2278>>),
   tBkg |-> Vec(<<2870, 2840, 2790, 2540, 2420, 2280>>),
   tFlags |-> Vec(<<320, 128, 256, 256, 128, 256>>),
   tObsCorrection |-> Vec(<<0, 50, 0, 0, 15, 0>>)]
ProfileC ==
  [pressures |-> Vec(<<100000, 85000, 70000, 50000>>),
   tObs |-> Vec(<<2880, 2850, 2702, 2534>>),
   tBkg |-> Vec(<<2870, 2790, 2700, 2540>>),
   tFlags |-> Vec(<<256, 128, 256, 256>>),
   tObsCorrection |-> Vec(<<0, 0, 0, 0>>)]
\* Level 3 lies between the significant levels 2 (2702 at 700 hPa) and 5
\* (2425 at 300 hPa): the real-number interpolation is 2591.99996, its float
\* 2592, and the observation 2602 is exactly the tolerance away from the float.
ProfileD ==
  [pressures |-> Vec(<<100000, 85000, 70000, 50000, 40000, 30000>>),
   tObs |-> Vec(<<2880, 2799, 2702, 2602, 2540, 2425>>),
   tBkg |-> Vec(<<2870, 2790, 2700, 2600, 2540, 2420>>),
   tFlags |-> Vec(<<384, 384, 384, 384, 128, 384>>),
   tObsCorrection |-> Vec(<<0, 0, 0, 0, 0, 0>>)]
ProfileEmpty ==
  [pressures |-> EmptyVec, tObs |-> EmptyVec, tBkg |-> EmptyVec,
   tFlags |-> EmptyVec, tObsCorrection |-> EmptyVec]

Scenarios ==
  {<<ProfileA, RefOptions>>, <<ProfileB, UnsortedOptions>>,
   <<ProfileA, NoBandOptions>>, <<ProfileC, RefOptions>>,
   <<ProfileD, RefOptions>>,
   <<ProfileEmpty, RefOptions>>}

\* Values the data handler's writes draw from.
EditPressures == {84960, 50000, 7000}
EditObs == {2712, 2900}
EditCorrections == {100}
FlagBits == {SurfaceLevelFlag, StandardLevelFlag, SigTempLevelFlag, InterpolationFlag}

-----------------------------------------------------------------------------
\* Variant: the size comparison leaves the background temperature out.
allVectorsSameSizeButBkg(p, to, tb, tf, tc) ==
  /\ Size(to) = Size(p) /\ Size(tf) = Size(p) /\ Size(tc) = Size(p)

\* oops::anyVectorEmpty and oops::allVectorsSameSize on the five inputs.
anyVectorEmpty(p, to, tb, tf, tc) ==
  \/ Size(p) = 0 \/ Size(to) = 0 \/ Size(tb) = 0 \/ Size(tf) = 0 \/ Size(tc) = 0
allVectorsSameSize(p, to, tb, tf, tc) ==
  /\ Size(to) = Size(p) /\ Size(tb) = Size(p)
  /\ Size(tf) = Size(p) /\ Size(tc) = Size(p)

\* profileIndices_.getNumLevelsToCheck(): the number of levels of the profile.
getNumLevelsToCheck(p) == Size(p)

\* correctVector: the observation plus its correction, level by level, a
\* vector of floats.
correctVector(v1, v2) == [i \in DOMAIN v1 |-> FAdd(FromInt(v1[i]), FromInt(v2[i]))]

\* std::log of a pressure: the float nearest to its natural logarithm, for
\* the pressures a profile of this model can hold (11.512925, 11.434964,
\* 11.350407, 11.349936, 11.156251, 10.819778, 10.596635, 10.308952,
\* 8.853665).
Log(p) ==
  CASE p = 100000 -> <<12072177, -20>> [] p = 92500 -> <<11990429, -20>>
    [] p = 85000 -> <<11901764, -20>> [] p = 84960 -> <<11901270, -20>>
    [] p = 70000 -> <<11698177, -20>> [] p = 50000 -> <<11345360, -20>>
    [] p = 40000 -> <<11111377, -20>> [] p = 30000 -> <<10809720, -20>>
    [] p = 7000 -> <<9283741, -20>>

\* The k-th smallest (k from 0) element of a set of integers.
RECURSIVE Nth(_, _)
Nth(S, k) ==
  LET m == CHOOSE x \in S : \A y \in S : x <= y
  IN  IF k = 0 THEN m ELSE Nth(S \ {m}, k - 1)

\* std::round(pressures[jlev] * 0.01): nearest hPa, halves away from zero.
IPStdOf(PStd) ==
  IF PStd >= 0 THEN (PStd + 50) \div 100 ELSE -((50 - PStd) \div 100)

\* The index in the band table of the entry equal to the pressure in whole
\* hPa, -1 when there is none.
BandIndex(levels, hPa) ==
  LET M == {i \in DOMAIN levels : levels[i] = hPa}
  IN  IF M = {} THEN -1 ELSE CHOOSE i \in M : \A k \in M : i <= k

\* calcStdLevels: standard levels in ascending order, for each the nearest
\* significant level on either side (-1 when there is none) and its index in
\* the table of standard levels, and the log-pressure of every level.
calcStdLevels(n, p, tFinal, flags, levels) ==
  LET Std == {i \in 0..(n - 1) : HasBit(flags[i], StandardLevelFlag)}
      Sig == {i \in 0..(n - 1) : HasBit(flags[i], SigTempLevelFlag)}
      lev == [j \in 0..(n - 1) |-> IF j < Cardinality(Std) THEN Nth(Std, j) ELSE -1]
      Below(l) == {s \in Sig : s < l}
      Above(l) == {s \in Sig : s > l}
  IN  [NumStd |-> Cardinality(Std),
       NumSig |-> Cardinality(Sig),
       StdLev |-> lev,
       SigBelow |-> [j \in 0..(n - 1) |->
                       IF lev[j] = -1 \/ Below(lev[j]) = {} THEN -1
                       ELSE CHOOSE s \in Below(lev[j]) : \A t \in Below(lev[j]) : t <= s],
       SigAbove |-> [j \in 0..(n - 1) |->
                       IF lev[j] = -1 \/ Above(lev[j]) = {} THEN -1
                       ELSE CHOOSE s \in Above(lev[j]) : \A t \in Above(lev[j]) : s <= t],
       IndStd |-> [j \in 0..(n - 1) |->
                     IF lev[j] = -1 THEN -1
                     ELSE BandIndex(levels, IPStdOf(p[lev[j]]))],
       LogP |-> [i \in 0..(n - 1) |-> Log(p[i])]]

-----------------------------------------------------------------------------
\* The body of the loop over standard levels, piece by piece.

\* Variant: the scan compares with < instead of <=.
RECURSIVE ScanBandsStrict(_, _, _, _)
ScanBandsStrict(opt, IPStd, i, BigGap) ==
  IF i >= Size(opt.StandardLevels) THEN BigGap
  ELSE IF opt.StandardLevels[i] < IPStd THEN opt.BigGaps[i] * 100
  ELSE ScanBandsStrict(opt, IPStd, i + 1, BigGap)

\* The scan of the band table from entry i on: the first entry with
\* StandardLevels_[i] <= IPStd gives BigGaps_[i] * 100, else the value so far.
RECURSIVE ScanBands(_, _, _, _)
ScanBands(opt, IPStd, i, BigGap) ==
  IF i >= Size(opt.StandardLevels) THEN BigGap
  ELSE IF opt.StandardLevels[i] <= IPStd THEN opt.BigGaps[i] * 100
  ELSE ScanBands(opt, IPStd, i + 1, BigGap)

BigGapOf(opt, IPStd) == ScanBands(opt, IPStd, 0, opt.ICheck_BigGapInit)

\* Variant: the surface test looks at the wrong bit.
IsSurfaceWrongBit(f) == HasBit(f, InterpolationFlag)

\* tFlags[jlev] & SurfaceLevelFlag
IsSurface(f) == HasBit(f, SurfaceLevelFlag)

\* Variant: the floor of three significant levels is missing.
TooFewSigNoFloor(NumSig, NumStd) == NumSig < NumStd \div 2

\* NumSig_ < std::max(3, NumStd_ / 2)
TooFewSig(NumSig, NumStd) == NumSig < Max(3, NumStd \div 2)

\* pressures[SigB] - PStd > BigGap || PStd - pressures[SigA] > BigGap ||
\* LogP_[SigB] == LogP_[SigA]
GapOrDegenerate(pB, PStd, pA, BigGap, lpB, lpA) ==
  \/ pB - PStd > BigGap
  \/ PStd - pA > BigGap
  \/ lpB = lpA

\* Variant: the interpolation starts from the upper bracket.
InterpolateFromAbove(tB, tA, lp, lpB, lpA) ==
  LET Ratio == FDiv(FSub(lp, lpB), FSub(lpA, lpB))
  IN  FAdd(tA, FMul(FSub(tA, tB), Ratio))

\* eqn 3.3a and 3.3b on floats, lpA # lpB:
\*   float Ratio = (lp - lpB) / (lpA - lpB);  tB + (tA - tB) * Ratio
Interpolate(tB, tA, lp, lpB, lpA) ==
  LET Ratio == FDiv(FSub(lp, lpB), FSub(lpA, lpB))
  IN  FAdd(tB, FMul(FSub(tA, tB), Ratio))

\* Variant: the tolerance is never relaxed.
TolRelaxNever(opt, PStd) == 1

TolRelaxOf(opt, PStd) ==
  IF PStd < opt.ICheck_TolRelaxPThresh THEN opt.ICheck_TolRelax ELSE 1

\* std::abs(tObsFinal[jlev] - tInterp_[jlev]) > ICheck_TInterpTol * TolRelax
ExceedsTol(t, ti, opt, PStd) ==
  FGreater(FAbs(FSub(t, ti)),
           FMul(FromInt(opt.ICheck_TInterpTol), FromInt(TolRelaxOf(opt, PStd))))

\* Variant: the count is set rather than incremented.
IncrToZero(v, i) == [v EXCEPT ![i] = 0]

Incr(v, i) == [v EXCEPT ![i] = @ + 1]
OrFlag(v, i) == [v EXCEPT ![i] = SetBit(@, InterpolationFlag)]

\* Variant: the upper bracket is not flagged.
OnFailureNoUpper(st, jlev, SigB, SigA) ==
  [st EXCEPT
     !.NumAnyErrors = @ + 1,
     !.NumInterpErrors = @ + 1,
     !.NumErrors = @ + 1,
     !.tFlags = [[@ EXCEPT ![jlev] = SetBit(@, InterpolationFlag)]
                   EXCEPT ![SigB] = SetBit(@, InterpolationFlag)],
     !.LevErrors = [[[@ EXCEPT ![jlev] = @ + 1] EXCEPT ![SigB] = @ + 1]
                      EXCEPT ![SigA] = @ + 1]]

\* Variant: the standard level's LevErrors takes the running NumErrors.
OnFailureTally(st, jlev, SigB, SigA) ==
  [st EXCEPT
     !.NumAnyErrors = @ + 1,
     !.NumInterpErrors = @ + 1,
     !.NumErrors = @ + 1,
     !.tFlags = [[[@ EXCEPT ![jlev] = SetBit(@, InterpolationFlag)]
                    EXCEPT ![SigB] = SetBit(@, InterpolationFlag)]
                    EXCEPT ![SigA] = SetBit(@, InterpolationFlag)],
     !.LevErrors = [[[@ EXCEPT ![jlev] = st.NumErrors] EXCEPT ![SigB] = @ + 1]
                      EXCEPT ![SigA] = @ + 1]]

\* The block run when the tolerance test fails.
OnFailure(st, jlev, SigB, SigA) ==
  [st EXCEPT
     !.NumAnyErrors = @ + 1,
     !.NumInterpErrors = @ + 1,
     !.NumErrors = @ + 1,
     !.tFlags = OrFlag(OrFlag(OrFlag(@, jlev), SigB), SigA),
     !.LevErrors = Incr(Incr(Incr(@, jlev), SigB), SigA)]

\* BigGapUsed of a standard level for which the loop did not reach BigGap.
NoGap == -1

\* One iteration: st is what the loop changes, c what it reads.
CheckLevel(st, jlevstd, c) ==
  LET jlev == c.StdLev[jlevstd]
      SigB == c.SigBelow[jlevstd]
      SigA == c.SigAbove[jlevstd]
      PStd == c.pressures[jlev]
      BigGap == BigGapOf(c.opt, IPStdOf(PStd))
      st1 == [st EXCEPT !.BigGapUsed[jlevstd] = BigGap]
      ti == Interpolate(c.tObsFinal[SigB], c.tObsFinal[SigA],
                        c.LogP[jlev], c.LogP[SigB], c.LogP[SigA])
      st2 == [st1 EXCEPT !.tInterp[jlev] = ti]
  IN  IF IsSurface(st.tFlags[jlev]) THEN st
      ELSE IF TooFewSig(c.NumSig, c.NumStd) THEN st1
      ELSE IF SigB = -1 \/ SigA = -1 THEN st1
      ELSE IF GapOrDegenerate(c.pressures[SigB], PStd, c.pressures[SigA], BigGap,
                              c.LogP[SigB], c.LogP[SigA]) THEN st1
      ELSE IF ExceedsTol(c.tObsFinal[jlev], ti, c.opt, PStd)
           THEN OnFailure(st2, jlev, SigB, SigA)
      ELSE st2

\* The loop, visiting the standard levels in the given order.
RECURSIVE RunLoop(_, _, _)
RunLoop(order, st, c) ==
  IF order = <<>> THEN st
  ELSE RunLoop(Tail(order), CheckLevel(st, Head(order), c), c)

\* for (jlevstd = 0; jlevstd < NumStd_; ++jlevstd)
LoopOrder(NumStd) == [k \in 1..NumStd |-> k - 1]

\* What the loop reads, after correctVector and calcStdLevels.
LoopInput(opt, p, to, tf, tc) ==
  LET tObsFinal == correctVector(to, tc)
      cls == calcStdLevels(getNumLevelsToCheck(p), p, tObsFinal, tf,
                           opt.StandardLevels)
  IN  [opt |-> opt, pressures |-> p, tObsFinal |-> tObsFinal,
       NumStd |-> cls.NumStd, NumSig |-> cls.NumSig, StdLev |-> cls.StdLev,
       SigBelow |-> cls.SigBelow, SigAbove |-> cls.SigAbove,
       IndStd |-> cls.IndStd, LogP |-> cls.LogP]

\* What the loop starts from: LevErrors_ and tInterp_ freshly assigned, NumErrors = 0.
LoopStart(n, tf, anyErr, interpErr) ==
  [tFlags |-> tf, NumAnyErrors |-> anyErr, NumInterpErrors |-> interpErr,
   NumErrors |-> 0,
   LevErrors |-> Assign(n, -1), tInterp |-> Assign(n, missingValueFloat),
   BigGapUsed |-> Assign(n, NoGap)]

\* Variant: the counter grows by the number of failing levels.
ErrObsPerLevel(errObs, NumErrors) == errObs + NumErrors

\* if (NumErrors > 0) NumInterpErrObs[0]++
ErrObsAfter(errObs, NumErrors) == IF NumErrors > 0 THEN errObs + 1 ELSE errObs

-----------------------------------------------------------------------------
\* State after construction: the data handler holds a profile and the
\* counters, the check's own vectors are empty.
Snapshot ==
  [pressures |-> pressures, tObs |-> tObs, tBkg |-> tBkg, tFlags |-> tFlags,
   tObsCorrection |-> tObsCorrection,
   NumAnyErrors |-> NumAnyErrors, NumInterpErrors |-> NumInterpErrors,
   NumInterpErrObs |-> NumInterpErrObs,
   NumStd |-> NumStd_, NumSig |-> NumSig_, StdLev |-> StdLev_,
   SigAbove |-> SigAbove_, SigBelow |-> SigBelow_, IndStd |-> IndStd_,
   LogP |-> LogP_, LevErrors |-> LevErrors_, tInterp |-> tInterp_]

Init ==
  /\ \E sc \in Scenarios :
       /\ options = sc[2]
       /\ pressures = sc[1].pressures
       /\ tObs = sc[1].tObs
       /\ tBkg = sc[1].tBkg
       /\ tFlags = sc[1].tFlags
       /\ tObsCorrection = sc[1].tObsCorrection
  /\ NumAnyErrors = 0 /\ NumInterpErrors = 0 /\ NumInterpErrObs = 0
  /\ NumStd_ = 0 /\ NumSig_ = 0
  /\ StdLev_ = EmptyVec /\ SigAbove_ = EmptyVec /\ SigBelow_ = EmptyVec
  /\ IndStd_ = EmptyVec
  /\ LogP_ = EmptyVec /\ LevErrors_ = EmptyVec /\ tInterp_ = EmptyVec
  /\ published = EmptyVec
  /\ BigGapUsed = EmptyVec
  /\ pre = Snapshot
  /\ last = "construct"
  /\ edits = 0 /\ runs = 0

\* ProfileCheckInterpolation::runCheck.  c is what correctVector and
\* calcStdLevels produce, st what the loop leaves.
RunCheck ==
  /\ runs < MaxRuns
  /\ last # "fillValidator"
  /\ runs' = runs + 1
  /\ last' = "runCheck"
  /\ pre' = Snapshot
  /\ UNCHANGED <<options, pressures, tObs, tBkg, tObsCorrection, published, edits>>
  /\ IF \/ anyVectorEmpty(pressures, tObs, tBkg, tFlags, tObsCorrection)
        \/ ~allVectorsSameSize(pressures, tObs, tBkg, tFlags, tObsCorrection)
     THEN UNCHANGED <<tFlags, counters, members, BigGapUsed>>
     ELSE \E c \in {LoopInput(options, pressures, tObs, tFlags, tObsCorrection)} :
          \E st \in {RunLoop(LoopOrder(c.NumStd),
                            LoopStart(getNumLevelsToCheck(pressures), tFlags,
                                      NumAnyErrors, NumInterpErrors), c)} :
              /\ NumStd_' = c.NumStd /\ NumSig_' = c.NumSig
              /\ StdLev_' = c.StdLev
              /\ SigAbove_' = c.SigAbove /\ SigBelow_' = c.SigBelow
              /\ IndStd_' = c.IndStd
              /\ LogP_' = c.LogP
              /\ tFlags' = st.tFlags
              /\ NumAnyErrors' = st.NumAnyErrors
              /\ NumInterpErrors' = st.NumInterpErrors
              /\ NumInterpErrObs' = ErrObsAfter(NumInterpErrObs, st.NumErrors)
              /\ LevErrors_' = st.LevErrors
              /\ tInterp_' = st.tInterp
              /\ BigGapUsed' = st.BigGapUsed

\* ProfileCheckInterpolation::fillValidator: the vectors are moved to the data
\* handler, which leaves each of them as it was or empty; the two counts are
\* broadcast over the levels.
FillValidator ==
  /\ last = "runCheck"
  /\ last' = "fillValidator"
  /\ published' =
       [StdLev |-> StdLev_, SigAbove |-> SigAbove_, SigBelow |-> SigBelow_,
        IndStd |-> IndStd_,
        LevErrors |-> LevErrors_, tInterp |-> tInterp_, LogP |-> LogP_,
        NumStd |-> Assign(getNumLevelsToCheck(pressures), NumStd_),
        NumSig |-> Assign(getNumLevelsToCheck(pressures), NumSig_)]
  /\ \E emptied \in BOOLEAN :
       IF emptied
       THEN /\ StdLev_' = EmptyVec /\ SigAbove_' = EmptyVec /\ SigBelow_' = EmptyVec
            /\ IndStd_' = EmptyVec
            /\ LevErrors_' = EmptyVec /\ tInterp_' = EmptyVec /\ LogP_' = EmptyVec
       ELSE UNCHANGED <<StdLev_, SigAbove_, SigBelow_, IndStd_, LevErrors_,
                        tInterp_, LogP_>>
  /\ UNCHANGED <<options, store, counters, NumStd_, NumSig_, BigGapUsed, pre,
                 edits, runs>>

\* Writes of the data handler between checks (other routines set and unset
\* flags, the next profile's values arrive).
Written ==
  /\ edits < MaxEdits
  /\ last # "fillValidator"
  /\ edits' = edits + 1
  /\ last' = "write"
  /\ UNCHANGED <<options, counters, members, published, BigGapUsed, pre, runs>>

SetPressure ==
  /\ Written
  /\ \E i \in DOMAIN pressures, p \in EditPressures :
       /\ pressures[i] # p
       /\ pressures' = [pressures EXCEPT ![i] = p]
  /\ UNCHANGED <<tObs, tBkg, tFlags, tObsCorrection>>

SetObs ==
  /\ Written
  /\ \E i \in DOMAIN tObs, t \in EditObs :
       /\ tObs[i] # t
       /\ tObs' = [tObs EXCEPT ![i] = t]
  /\ UNCHANGED <<pressures, tBkg, tFlags, tObsCorrection>>

SetCorrection ==
  /\ Written
  /\ \E i \in DOMAIN tObsCorrection, x \in EditCorrections :
       /\ tObsCorrection[i] # x
       /\ tObsCorrection' = [tObsCorrection EXCEPT ![i] = x]
  /\ UNCHANGED <<pressures, tObs, tBkg, tFlags>>

ToggleFlag ==
  /\ Written
  /\ \E i \in DOMAIN tFlags, b \in FlagBits :
       tFlags' = [tFlags EXCEPT ![i] = IF HasBit(@, b) THEN ClearBit(@, b)
                                                     ELSE SetBit(@, b)]
  /\ UNCHANGED <<pressures, tObs, tBkg, tObsCorrection>>

\* One of the five vectors loses its last element, or all of them.
Shrink(v, all) == IF all THEN EmptyVec ELSE PopBack(v)

Resize ==
  /\ Written
  /\ \E k \in 1..5, all \in BOOLEAN :
       /\ Size(store[k]) > 0
       /\ pressures' = IF k = 1 THEN Shrink(pressures, all) ELSE pressures
       /\ tObs' = IF k = 2 THEN Shrink(tObs, all) ELSE tObs
       /\ tBkg' = IF k = 3 THEN Shrink(tBkg, all) ELSE tBkg
       /\ tFlags' = IF k = 4 THEN Shrink(tFlags, all) ELSE tFlags
       /\ tObsCorrection' = IF k = 5 THEN Shrink(tObsCorrection, all)
                            ELSE tObsCorrection

Next ==
  \/ RunCheck
  \/ FillValidator
  \/ SetPressure
  \/ SetObs
  \/ SetCorrection
  \/ ToggleFlag
  \/ Resize

Spec == Init /\ [][Next]_vars

-----------------------------------------------------------------------------
\* Vocabulary of the properties.  Everything below is stated on the state
\* right after a runCheck (last = "runCheck"), with pre the state it started
\* from.  Only the order-independence property replays the loop; the others
\* are stated without the loop's operators.

AfterRun == last = "runCheck"

\* The five input vectors were non-empty and of one length.
ValidInput ==
  /\ Size(pre.pressures) > 0
  /\ \A v \in {pre.tObs, pre.tBkg, pre.tFlags, pre.tObsCorrection} :
       Size(v) = Size(pre.pressures)

AfterValidRun == AfterRun /\ ValidInput
AfterInvalidRun == AfterRun /\ ~ValidInput

Levels == DOMAIN pre.pressures
StdIndices == 0..(NumStd_ - 1)
\* The corrected observation of level i, a float.
TObsFinalAt(i) == FAdd(FromInt(pre.tObs[i]), FromInt(pre.tObsCorrection[i]))

\* The pressure in whole hPa: the integer nearest to p / 100.
NearestHPa(p) ==
  CHOOSE k \in {p \div 100, p \div 100 + 1} : 100 * k - 50 <= p /\ p < 100 * k + 50

\* The gap (Pa) of the first band, in table order, that satisfies Matches;
\* the configured default when none does.
FirstBandGap(Matches(_)) ==
  LET M == {i \in DOMAIN options.StandardLevels : Matches(options.StandardLevels[i])}
  IN  IF M = {} THEN options.ICheck_BigGapInit
      ELSE options.BigGaps[CHOOSE i \in M : \A k \in M : i <= k] * 100

GapAtOrBelow(p) == LET Le(th) == th <= NearestHPa(p) IN FirstBandGap(Le)
GapAtOrAbove(p) == LET Ge(th) == th >= NearestHPa(p) IN FirstBandGap(Ge)

HasSurfaceBit(j) == HasBit(pre.tFlags[StdLev_[j]], SurfaceLevelFlag)

\* Standard level j passes every guard but (possibly) the surface one.
PassesOtherGuards(j) ==
  LET lev == StdLev_[j]
      B == SigBelow_[j]
      A == SigAbove_[j]
  IN  /\ NumSig_ >= Max(3, NumStd_ \div 2)
      /\ B # -1 /\ A # -1
      /\ pre.pressures[B] - pre.pressures[lev] <= GapAtOrBelow(pre.pressures[lev])
      /\ pre.pressures[lev] - pre.pressures[A] <= GapAtOrBelow(pre.pressures[lev])
      /\ LogP_[B] # LogP_[A]

PassesGuards(j) == ~HasSurfaceBit(j) /\ PassesOtherGuards(j)

\* ICheck_TInterpTol * TolRelax at standard level j, a float.
ToleranceAt(j) ==
  FMul(FromInt(options.ICheck_TInterpTol),
       FromInt(IF pre.pressures[StdLev_[j]] < options.ICheck_TolRelaxPThresh
               THEN options.ICheck_TolRelax ELSE 1))

\* |t - v| > tol in floats.
FurtherThan(t, v, tol) == FGreater(FAbs(FSub(t, v)), tol)

\* |tObsFinal[lev] - tInterp[lev]| > tolerance, on the stored tInterp_.
StoredExceeds(j) ==
  FurtherThan(TObsFinalAt(StdLev_[j]), tInterp_[StdLev_[j]], ToleranceAt(j))

Failing == {j \in StdIndices : PassesGuards(j) /\ StoredExceeds(j)}

Triple(j) == {StdLev_[j], SigBelow_[j], SigAbove_[j]} \ {-1}
InFailingTriple(i, F) == {j \in F : i \in Triple(j)}

\* The float the formula tB + (tA - tB) * (lp - lpB) / (lpA - lpB) gives at
\* standard level j, the quotient of the log-pressure differences first.
InterpolationAt(j) ==
  LET tB == TObsFinalAt(SigBelow_[j])
      tA == TObsFinalAt(SigAbove_[j])
      num == FSub(LogP_[StdLev_[j]], LogP_[SigBelow_[j]])
      den == FSub(LogP_[SigAbove_[j]], LogP_[SigBelow_[j]])
  IN  FAdd(tB, FMul(FSub(tA, tB), FDiv(num, den)))

IsInterpolationOf(v, j) == v = InterpolationAt(j)

\* The observation at level j is further than the tolerance from the value
\* interpolated between its brackets (computed afresh, whatever was stored).
WouldExceed(j) ==
  FurtherThan(TObsFinalAt(StdLev_[j]), InterpolationAt(j), ToleranceAt(j))

-----------------------------------------------------------------------------
\* C1 (as stated): for every standard level the loop evaluates, the BigGap
\* used is the gap of the first band, in table order, whose threshold is >=
\* the level's pressure rounded to whole hPa, and ICheck_BigGapInit when no
\* band has such a threshold.
C1_FirstBandAtOrAbove ==
  AfterValidRun =>
    \A j \in StdIndices :
      ~HasSurfaceBit(j) => BigGapUsed[j] = GapAtOrAbove(pre.pressures[StdLev_[j]])

\* C1 (amended): for every standard level that passes the surface guard, the
\* BigGap used is the gap (hPa x 100) of the first band, in table order, whose
\* threshold is <= the level's pressure rounded to the nearest whole hPa, and
\* ICheck_BigGapInit when no band has such a threshold.
C1_FirstBandAtOrBelow ==
  AfterValidRun =>
    \A j \in StdIndices :
      ~HasSurfaceBit(j) => BigGapUsed[j] = GapAtOrBelow(pre.pressures[StdLev_[j]])

\* A run in which one standard level took the gap of a band that is not the
\* first of the table and another one fell through to the default.
C1_Witness ==
  /\ AfterValidRun
  /\ \E j \in StdIndices :
       /\ ~HasSurfaceBit(j)
       /\ \E i \in DOMAIN options.StandardLevels :
            /\ i > 0
            /\ options.StandardLevels[i] <= NearestHPa(pre.pressures[StdLev_[j]])
            /\ \A k \in 0..(i - 1) :
                 options.StandardLevels[k] > NearestHPa(pre.pressures[StdLev_[j]])
            /\ BigGapUsed[j] = options.BigGaps[i] * 100
            /\ BigGapUsed[j] # options.BigGaps[0] * 100
  /\ \E j \in StdIndices :
       /\ ~HasSurfaceBit(j)
       /\ \A i \in DOMAIN options.StandardLevels :
            options.StandardLevels[i] > NearestHPa(pre.pressures[StdLev_[j]])
       /\ BigGapUsed[j] = options.ICheck_BigGapInit

\* C2: a runCheck on input with an empty vector or vectors of different
\* lengths changes nothing: flags, the three counters, the classification
\* and LevErrors_ / tInterp_ are as they were before the call.
C2_InvalidInputNoChange ==
  AfterInvalidRun =>
    /\ tFlags = pre.tFlags
    /\ NumAnyErrors = pre.NumAnyErrors
    /\ NumInterpErrors = pre.NumInterpErrors
    /\ NumInterpErrObs = pre.NumInterpErrObs
    /\ NumStd_ = pre.NumStd /\ NumSig_ = pre.NumSig
    /\ StdLev_ = pre.StdLev
    /\ SigAbove_ = pre.SigAbove /\ SigBelow_ = pre.SigBelow
    /\ IndStd_ = pre.IndStd
    /\ LogP_ = pre.LogP
    /\ LevErrors_ = pre.LevErrors
    /\ tInterp_ = pre.tInterp

\* A run refused for a length mismatch alone, after an earlier run had left
\* errors and a classification behind.
C2_Witness ==
  /\ AfterInvalidRun
  /\ \A v \in {pre.pressures, pre.tObs, pre.tBkg, pre.tFlags, pre.tObsCorrection} :
       Size(v) > 0
  /\ pre.NumStd > 0
  /\ pre.NumInterpErrors > 0
  /\ \E i \in DOMAIN pre.LevErrors : pre.LevErrors[i] >= 0

\* C3: after a runCheck on valid input NumInterpErrors[0] and NumAnyErrors[0]
\* have each grown by exactly the number of failing standard levels: those
\* that pass every guard and whose corrected observation is further from
\* tInterp than ICheck_TInterpTol * TolRelax.
C3_ErrorsCountFailingLevels ==
  AfterValidRun =>
    LET failed == Cardinality(Failing)
    IN  /\ NumInterpErrors = pre.NumInterpErrors + failed
        /\ NumAnyErrors = pre.NumAnyErrors + failed

\* A run with a failing level, with a level that passes at a distance of
\* exactly the tolerance from its rounded tInterp, and with a level below the
\* relaxation pressure that passes only thanks to the relaxed tolerance.
C3_Witness ==
  /\ AfterValidRun
  /\ Failing # {}
  /\ NumInterpErrors > pre.NumInterpErrors
  /\ \E j \in StdIndices \ Failing :
       /\ PassesGuards(j)
       /\ FAbs(FSub(TObsFinalAt(StdLev_[j]), tInterp_[StdLev_[j]])) = ToleranceAt(j)
  /\ \E j \in StdIndices \ Failing :
       /\ PassesGuards(j)
       /\ pre.pressures[StdLev_[j]] < options.ICheck_TolRelaxPThresh
       /\ FurtherThan(TObsFinalAt(StdLev_[j]), tInterp_[StdLev_[j]],
                      FromInt(options.ICheck_TInterpTol))

\* C4: one runCheck raises NumInterpErrObs[0] by exactly 1 when at least one
\* standard level failed in it and by 0 otherwise, however many failed.
C4_ErrObsOncePerProfile ==
  AfterRun =>
    NumInterpErrObs = pre.NumInterpErrObs
                      + (IF ValidInput /\ Failing # {} THEN 1 ELSE 0)

\* A run in which several standard levels failed, on a counter that an
\* earlier run had already raised.
C4_Witness ==
  /\ AfterValidRun
  /\ Cardinality(Failing) >= 2
  /\ pre.NumInterpErrObs >= 1
  /\ NumInterpErrObs = pre.NumInterpErrObs + 1

\* C5: after a runCheck on valid input, flags[i] is the input flags[i] with
\* the interpolation bit OR'd in when i is the standard level or a bracket of
\* a failing standard level, and the input flags[i] otherwise; pressures,
\* tObs, tBkg and tObsCorrection are as before.
C5_FlagsEffect ==
  AfterValidRun =>
    /\ DOMAIN tFlags = Levels
    /\ \A F \in {Failing} :
           \A i \in Levels :
             tFlags[i] = IF InFailingTriple(i, F) # {}
                         THEN SetBit(pre.tFlags[i], InterpolationFlag)
                         ELSE pre.tFlags[i]
    /\ pressures = pre.pressures /\ tObs = pre.tObs
    /\ tBkg = pre.tBkg /\ tObsCorrection = pre.tObsCorrection

\* A failing level whose three levels all gained the bit, next to a level
\* outside every failing triple that entered with the bit already set.
C5_Witness ==
  /\ AfterValidRun
  /\ \E j \in Failing :
       /\ Cardinality(Triple(j)) = 3
       /\ \A i \in Triple(j) :
            ~HasBit(pre.tFlags[i], InterpolationFlag) /\ HasBit(tFlags[i], InterpolationFlag)
  /\ \E i \in Levels :
       /\ InFailingTriple(i, Failing) = {}
       /\ HasBit(pre.tFlags[i], InterpolationFlag)

\* C6: when a valid profile has no standard level, or every standard level is
\* skipped by a guard, runCheck leaves the flags and the three counters at
\* their input values, every tInterp at the missing value and every
\* LevErrors at -1.
C6_NothingEvaluatedNothingChanged ==
  (AfterValidRun /\ \A j \in StdIndices : ~PassesGuards(j)) =>
    /\ tFlags = pre.tFlags
    /\ NumAnyErrors = pre.NumAnyErrors
    /\ NumInterpErrors = pre.NumInterpErrors
    /\ NumInterpErrObs = pre.NumInterpErrObs
    /\ DOMAIN tInterp_ = Levels /\ DOMAIN LevErrors_ = Levels
    /\ \A i \in Levels : tInterp_[i] = missingValueFloat /\ LevErrors_[i] = -1

\* A profile with standard levels, all skipped, one of them with both
\* brackets and an observation far from the interpolated value; the run
\* before it had left errors in LevErrors_.
C6_Witness ==
  /\ AfterValidRun
  /\ NumStd_ > 0
  /\ \A j \in StdIndices : ~PassesGuards(j)
  /\ \E j \in StdIndices :
       /\ ~HasSurfaceBit(j)
       /\ SigBelow_[j] # -1 /\ SigAbove_[j] # -1
       /\ LogP_[SigBelow_[j]] # LogP_[SigAbove_[j]]
       /\ WouldExceed(j)
  /\ \E i \in DOMAIN pre.LevErrors : pre.LevErrors[i] >= 0

\* C7: a standard level whose input flags carry the surface bit is never
\* evaluated: no BigGap is taken for it, its tInterp stays the missing value,
\* and it adds nothing to the counters, so that the growth of NumAnyErrors
\* and NumInterpErrors is bounded by the number of the other standard levels
\* and NumInterpErrObs does not grow when all standard levels are surface
\* levels; unless it is a bracket of a failing level, its flags are the input
\* flags and its LevErrors is -1.
C7_SurfaceLevelNotEvaluated ==
  AfterValidRun =>
    LET Surf == {j \in StdIndices : HasSurfaceBit(j)}
        F == Failing
    IN  /\ \A j \in Surf :
             /\ BigGapUsed[j] = NoGap
             /\ tInterp_[StdLev_[j]] = missingValueFloat
             /\ InFailingTriple(StdLev_[j], F) = {} =>
                  /\ tFlags[StdLev_[j]] = pre.tFlags[StdLev_[j]]
                  /\ LevErrors_[StdLev_[j]] = -1
        /\ NumInterpErrors - pre.NumInterpErrors <= NumStd_ - Cardinality(Surf)
        /\ NumAnyErrors - pre.NumAnyErrors <= NumStd_ - Cardinality(Surf)
        /\ Surf = StdIndices => NumInterpErrObs = pre.NumInterpErrObs

\* A surface standard level that passes every other guard and whose
\* observation is out of tolerance, left untouched.
C7_Witness ==
  /\ AfterValidRun
  /\ \E j \in StdIndices :
       /\ HasSurfaceBit(j)
       /\ PassesOtherGuards(j)
       /\ WouldExceed(j)
       /\ tInterp_[StdLev_[j]] = missingValueFloat
       /\ tFlags[StdLev_[j]] = pre.tFlags[StdLev_[j]]
       /\ NumInterpErrors = pre.NumInterpErrors

\* The standard levels' index triples are pairwise disjoint.
DisjointTriples ==
  \A j1, j2 \in StdIndices : j1 # j2 => Triple(j1) \cap Triple(j2) = {}

\* All orders in which the standard levels 0..n-1 can be visited.
Orders(n) ==
  {o \in [1..n -> 0..(n - 1)] : \A a, b \in 1..n : a # b => o[a] # o[b]}

\* C8: when the standard levels have pairwise disjoint triples, visiting them
\* in any order gives the flags, counters, LevErrors and tInterp that the
\* ascending order gave.
C8_OrderIndependent ==
  (AfterValidRun /\ DisjointTriples) =>
    LET n == Size(pre.pressures)
        c == LoopInput(options, pre.pressures, pre.tObs, pre.tFlags, pre.tObsCorrection)
        st0 == LoopStart(n, pre.tFlags, pre.NumAnyErrors, pre.NumInterpErrors)
    IN  \A o \in Orders(NumStd_) :
          LET st == RunLoop(o, st0, c)
          IN  /\ st.tFlags = tFlags
              /\ st.NumAnyErrors = NumAnyErrors
              /\ st.NumInterpErrors = NumInterpErrors
              /\ ErrObsAfter(pre.NumInterpErrObs, st.NumErrors) = NumInterpErrObs
              /\ st.LevErrors = LevErrors_
              /\ st.tInterp = tInterp_

\* Two failing standard levels with full, disjoint triples.
C8_Witness ==
  /\ AfterValidRun
  /\ DisjointTriples
  /\ \E j1, j2 \in Failing :
       j1 # j2 /\ Cardinality(Triple(j1)) = 3 /\ Cardinality(Triple(j2)) = 3

\* C9: after a runCheck on valid input tInterp[i] is the log-pressure
\* interpolation between the brackets when i is a standard level that passes
\* every guard, whether or not it then fails, and the missing value for every
\* other level.
C9_TInterpOnlyWhereEvaluated ==
  AfterValidRun =>
    /\ DOMAIN tInterp_ = Levels
    /\ \A i \in Levels :
         LET E == {j \in StdIndices : StdLev_[j] = i /\ PassesGuards(j)}
         IN  IF E = {} THEN tInterp_[i] = missingValueFloat
             ELSE /\ tInterp_[i] # missingValueFloat
                  /\ \A j \in E : IsInterpolationOf(tInterp_[i], j)

\* An evaluated level within tolerance whose interpolated value is no whole
\* number, an evaluated level that fails, and a level skipped for its gap.
C9_Witness ==
  /\ AfterValidRun
  /\ \E j \in StdIndices \ Failing : PassesGuards(j) /\ ~FIsWhole(tInterp_[StdLev_[j]])
  /\ \E j \in Failing : tInterp_[StdLev_[j]] # missingValueFloat
  /\ \E j \in StdIndices :
       /\ ~HasSurfaceBit(j)
       /\ SigBelow_[j] # -1 /\ SigAbove_[j] # -1
       /\ LogP_[SigBelow_[j]] # LogP_[SigAbove_[j]]
       /\ ~PassesOtherGuards(j)
       /\ tInterp_[StdLev_[j]] = missingValueFloat

\* C10: after a runCheck on valid input LevErrors[i] is -1 plus the number of
\* failing standard levels that have i as standard level or bracket; so
\* LevErrors[i] >= 0 exactly when i took part in a failing triple, and then
\* flags[i] has the interpolation bit.
C10_LevErrorsCountTriples ==
  AfterValidRun =>
    /\ DOMAIN LevErrors_ = Levels
    /\ \A F \in {Failing} :
           \A i \in Levels :
             /\ LevErrors_[i] = -1 + Cardinality(InFailingTriple(i, F))
             /\ LevErrors_[i] >= 0 <=> InFailingTriple(i, F) # {}
             /\ LevErrors_[i] >= 0 => HasBit(tFlags[i], InterpolationFlag)

\* A level that is in the triples of three failing levels, next to one that
\* is in exactly one.
C10_Witness ==
  /\ AfterValidRun
  /\ \E i \in Levels : LevErrors_[i] = 2 /\ Cardinality(InFailingTriple(i, Failing)) = 3
  /\ \E i \in Levels : LevErrors_[i] = 0 /\ Cardinality(InFailingTriple(i, Failing)) = 1

====
